---- MODULE Spec2Model ----
(***************************************************************************)
(* Test-result aggregation and report pipeline of the QA automation        *)
(* framework: scripts/calculate_metrics.py (metrics-only entry point),     *)
(* scripts/generate_reports.py with utils/test_report_generator.py         *)
(* (full-report entry point).                                              *)
(*                                                                         *)
(* Numbers.  Python floats are modelled as exact rationals                 *)
(* [kind |-> "float", num, den] with den > 0.  For every total < 400 the   *)
(* float (passed / total) * 100 compares with 80, 95 and 100 and floors    *)
(* under / 5 exactly as the rational does.  Durations of the metrics       *)
(* calculator are seconds, (stop - start) / 1000; the model keeps the      *)
(* numerator in the field and the divisor 1000 in MsPerSecond.             *)
(***************************************************************************)
EXTENDS Integers, Sequences, FiniteSets, TLC

VARIABLES
    prog,        \* which script runs: "metrics", "report" or "calc" (library calls)
    dirExists,   \* reports/allure-results exists
    files,       \* the *-result.json files of that directory, in scan order
    template,    \* value of REPORT_TEMPLATE
    pandoc,      \* the external converter: "missing", "fails" or "ok"
    pc,          \* position of the running script
    idx,         \* index of the next file of the scan
    metrics,     \* TestMetricsCalculator.parse_allure_results accumulator
    results,     \* TestReportGenerator.parse_allure_results value held by main
    fs,          \* files and directories the scripts write
    fs0,         \* the file system before the run
    console,     \* what print_metrics / main printed last
    exitCode,    \* process exit code, NotExited while running
    call,        \* last direct call of a method and its result
    url,         \* page.url of the browser page, as its path segments
    log,         \* the records logged so far, oldest first
    loggers      \* the loggers of the logging module, by name

vars == <<prog, dirExists, files, template, pandoc, pc, idx, metrics, results,
          fs, fs0, console, exitCode, call, url, log, loggers>>

----------------------------------------------------------------------------
(* Bounds of the model *)

MaxFiles == 2
MaxTests == 4
NegN == 2
MaxTotal == 20
MaxSkipped == 1
MaxFrameFiles == 2
MaxLog == 2

----------------------------------------------------------------------------
(* JSON values of a result file *)

AbsentKey == "<absent>"
JsonNull == "<null>"
MsPerSecond == 1000
NotExited == 0 - 1

JNum(v) == [t |-> "num", v |-> v]
JNull == [t |-> "null", v |-> 0]
JAbsent == [t |-> "absent", v |-> 0]

\* dict.get(key, default): the value of the key, the default when it is absent
Get(value, default) == IF value = JAbsent THEN default ELSE value
GetStr(value, default) == IF value = AbsentKey THEN default ELSE value

File(json, name, status, start, stop) ==
    [json |-> json, name |-> name, status |-> status, start |-> start, stop |-> stop]

\* a file json.load rejects, and a file holding valid JSON that is no object
InvalidJsonFile == File("invalid", AbsentKey, AbsentKey, JAbsent, JAbsent)
ArrayJsonFile == File("array", AbsentKey, AbsentKey, JAbsent, JAbsent)

FileKinds ==
    {InvalidJsonFile, ArrayJsonFile}
    \cup {File("object", "t", s, JNum(0), JNum(1000)) :
            s \in {"passed", "failed", "skipped", "broken", "flaky", AbsentKey, JsonNull}}
    \cup {File("object", "t", "passed", JNum(2000), JNum(1000)),
          File("object", AbsentKey, "passed", JNum(1000), JAbsent),
          File("object", "t", "passed", JNull, JNum(1000)),
          File("object", "t", "failed", JNum(0), JNull),
          File("object", "u", "failed", JNum(0), JNum(1000))}

\* well-formed records only, with more durations: the inputs of the library calls
TestFile(status, seconds) ==
    File("object", "t", status, JNum(0), JNum(seconds * MsPerSecond))

TestKinds ==
    {TestFile("passed", 1), TestFile("passed", 5), TestFile("failed", 5),
     TestFile("failed", 3), TestFile("failed", 9), TestFile("broken", 9)}

\* fullName identifies the test; the model numbers the files in scan order
Stamp(s) ==
    [i \in DOMAIN s |->
        [json |-> s[i].json, name |-> s[i].name, status |-> s[i].status,
         start |-> s[i].start, stop |-> s[i].stop, fullName |-> i]]

SeqsUpTo(S, n) == UNION {[1..k -> S] : k \in 0..n}

\* larger directories of well-formed records, given by their status counts: the
\* inputs that reach every pass-rate band
RateDir(p, f, k) ==
    [i \in 1..(p + f + k) |->
        IF i <= p THEN TestFile("passed", 1)
        ELSE IF i <= p + f THEN TestFile("failed", 1)
        ELSE TestFile("skipped", 1)]

RateDirs ==
    {Stamp(RateDir(p, f, k)) :
        <<p, f, k>> \in {c \in (0..MaxTotal) \X (0..MaxTotal) \X (0..MaxSkipped) :
                            c[1] + c[2] + c[3] <= MaxTotal}}

Dirs == {Stamp(s) : s \in SeqsUpTo(FileKinds, MaxFiles)}
TestDirs == {Stamp(s) : s \in SeqsUpTo(TestKinds, MaxTests)}

----------------------------------------------------------------------------
(* Numbers *)

Float(n, d) == [kind |-> "float", num |-> n, den |-> d]
ZeroDivisionError == [kind |-> "ZeroDivisionError", num |-> 0, den |-> 0]
NoFloat == [kind |-> "none", num |-> 0, den |-> 1]

\* a / b of Python
Divide(a, b) == IF b = 0 THEN ZeroDivisionError ELSE Float(a, b)

Min(a, b) == IF a < b THEN a ELSE b
Max(a, b) == IF a > b THEN a ELSE b

\* r >= k, r = k for a float r and an integer k
FloatGE(r, k) == r.num >= k * r.den
FloatEQ(r, k) == r.num = k * r.den

\* int(r / k) for r >= 0
FloorDiv(r, k) == r.num \div (r.den * k)

\* f"{r:.2f}" and f"{r:.1f}" as the number of hundredths / tenths printed
\* (round-half-even on the exact value)
Round(n, d) ==
    LET q == n \div d
        rem == n % d
    IN  IF 2 * rem > d THEN q + 1
        ELSE IF 2 * rem < d THEN q
        ELSE IF q % 2 = 0 THEN q ELSE q + 1
Fmt2(r) == Round(r.num * 100, r.den)
Fmt1(r) == Round(r.num * 10, r.den)

\* f"{n}" for an integer n >= 0: its decimal digits, most significant first
RECURSIVE Str(_)
Str(n) == IF n < 10 THEN <<n>> ELSE Str(n \div 10) \o <<n % 10>>

\* int(text) of a digit string
RECURSIVE ParseInt(_)
ParseInt(digits) ==
    IF digits = <<>> THEN 0
    ELSE ParseInt(SubSeq(digits, 1, Len(digits) - 1)) * 10 + digits[Len(digits)]

----------------------------------------------------------------------------
(* scripts/calculate_metrics.py: TestMetricsCalculator *)

_get_empty_metrics ==
    [total |-> 0, passed |-> 0, failed |-> 0, skipped |-> 0, broken |-> 0,
     total_duration |-> 0, tests |-> <<>>]

IsNum(j) == j.t = "num"

CountStatusNoBroken(m, status) ==
    IF status = "passed" THEN [m EXCEPT !.passed = @ + 1]
    ELSE IF status = "failed" THEN [m EXCEPT !.failed = @ + 1]
    ELSE IF status = "skipped" THEN [m EXCEPT !.skipped = @ + 1]
    ELSE m

\* the status buckets of the calculator: passed, failed, skipped, broken
CountStatus(m, status) ==
    IF status = "passed" THEN [m EXCEPT !.passed = @ + 1]
    ELSE IF status = "failed" THEN [m EXCEPT !.failed = @ + 1]
    ELSE IF status = "skipped" THEN [m EXCEPT !.skipped = @ + 1]
    ELSE IF status = "broken" THEN [m EXCEPT !.broken = @ + 1]
    ELSE m

\* The body of the try block for one result file.  An exception leaves the loop
\* body where it is raised and keeps the assignments made before it:
\* json.load raises before anything is counted; data.get raises on JSON that is
\* no object, after total was counted; stop > start raises on a null operand,
\* after total and the status bucket were counted.
ParseResultFile(m, f) ==
    IF f.json = "invalid" THEN m
    ELSE
        LET m1 == [m EXCEPT !.total = @ + 1] IN
        IF f.json # "object" THEN m1
        ELSE
            LET status == GetStr(f.status, "unknown")
                m2 == CountStatus(m1, status)
                start == Get(f.start, JNum(0))
                stop == Get(f.stop, JNum(0))
            IN  IF ~(IsNum(start) /\ IsNum(stop)) THEN m2
                ELSE
                    LET duration == IF stop.v > start.v THEN stop.v - start.v ELSE 0
                    IN  [m2 EXCEPT
                            !.total_duration = @ + duration,
                            !.tests = Append(@,
                                [name |-> GetStr(f.name, "Unknown"),
                                 status |-> status,
                                 duration |-> duration,
                                 fullName |-> f.fullName])]

\* the whole scan of parse_allure_results, file by file in scan order
RECURSIVE ParseFrom(_, _, _)
ParseFrom(m, fl, i) ==
    IF i > Len(fl) THEN m ELSE ParseFrom(ParseResultFile(m, fl[i]), fl, i + 1)

parse_allure_results(exists, fl) ==
    IF ~exists \/ Len(fl) = 0 THEN _get_empty_metrics
    ELSE ParseFrom(_get_empty_metrics, fl, 1)

calculate_pass_rate_unguarded(m) == Divide(m.passed * 100, m.total)

calculate_pass_rate(m) ==
    IF m.total = 0 THEN Float(0, 1) ELSE Divide(m.passed * 100, m.total)

calculate_avg_duration(m) ==
    IF m.total = 0 THEN Float(0, 1)
    ELSE Divide(m.total_duration, MsPerSecond * m.total)

\* sorted(tests, key=duration, reverse=True): a stable sort, records of equal
\* duration keep their input order
RECURSIVE InsertByDuration(_, _)
InsertByDuration(sorted, t) ==
    IF sorted = <<>> THEN <<t>>
    ELSE IF Head(sorted).duration >= t.duration
         THEN <<Head(sorted)>> \o InsertByDuration(Tail(sorted), t)
         ELSE <<t>> \o sorted

RECURSIVE SortedByDurationDesc(_)
SortedByDurationDesc(tests) ==
    IF tests = <<>> THEN <<>>
    ELSE InsertByDuration(SortedByDurationDesc(SubSeq(tests, 1, Len(tests) - 1)),
                          tests[Len(tests)])

\* seq[:count] of Python: a negative count drops that many from the end
Slice(s, count) ==
    IF count >= 0 THEN SubSeq(s, 1, Min(count, Len(s)))
    ELSE SubSeq(s, 1, Max(Len(s) + count, 0))

get_slowest_tests_unsorted(m, count) == Slice(m.tests, count)

get_slowest_tests(m, count) == Slice(SortedByDurationDesc(m.tests), count)

IsFailedOrBroken(t) == t.status \in {"failed", "broken"}
get_failed_tests_with_broken(m) == SelectSeq(m.tests, IsFailedOrBroken)

IsFailed(t) == t.status = "failed"
get_failed_tests(m) == SelectSeq(m.tests, IsFailed)

Names(tests) == [i \in DOMAIN tests |-> tests[i].name]

NoBadge ==
    [schemaVersion |-> 0, label |-> "", message |-> [passed |-> <<>>, total |-> <<>>],
     color |-> ""]

create_gitlab_badge_data_above(m) ==
    [schemaVersion |-> 1,
     label |-> "tests",
     message |-> [passed |-> Str(m.passed), total |-> Str(m.total)],
     color |-> IF ~FloatGE(calculate_pass_rate(m), 95) THEN
                   IF FloatGE(calculate_pass_rate(m), 80) THEN "warning" ELSE "critical"
               ELSE IF FloatEQ(calculate_pass_rate(m), 95) THEN "warning"
               ELSE "success"]

\* the badge: message "<passed>/<total> passed" and the color of the pass rate
create_gitlab_badge_data(m) ==
    [schemaVersion |-> 1,
     label |-> "tests",
     message |-> [passed |-> Str(m.passed), total |-> Str(m.total)],
     color |-> IF FloatGE(calculate_pass_rate(m), 95) THEN "success"
               ELSE IF FloatGE(calculate_pass_rate(m), 80) THEN "warning"
               ELSE "critical"]

\* the quality band of print_metrics
QualityAssessment(pass_rate) ==
    IF FloatEQ(pass_rate, 100) THEN "EXCELLENT"
    ELSE IF FloatGE(pass_rate, 95) THEN "GOOD"
    ELSE IF FloatGE(pass_rate, 80) THEN "WARNING"
    ELSE "CRITICAL"

\* a bar that rounds pass_rate / 5 to the nearest integer
BarRounded(pass_rate) ==
    [filled |-> Round(pass_rate.num, pass_rate.den * 5),
     empty |-> 20 - Round(pass_rate.num, pass_rate.den * 5)]

\* the bar: int(pass_rate / 5) filled glyphs, 20 - int(pass_rate / 5) empty ones
Bar(pass_rate) ==
    [filled |-> FloorDiv(pass_rate, 5), empty |-> 20 - FloorDiv(pass_rate, 5)]

NoConsole ==
    [printed |-> FALSE, band |-> "", bar |-> [filled |-> 0, empty |-> 0],
     slowest |-> <<>>, failed |-> <<>>]

print_metrics(m) ==
    [printed |-> TRUE,
     band |-> QualityAssessment(calculate_pass_rate(m)),
     bar |-> Bar(calculate_pass_rate(m)),
     slowest |-> get_slowest_tests(m, 3),
     failed |-> Names(get_failed_tests(m))]

\* metrics.txt: one "key value" line per metric, rates and durations with two
\* decimals (held as hundredths)
NoMetricsFile ==
    [exists |-> FALSE, test_total |-> 0, test_passed |-> 0, test_failed |-> 0,
     test_skipped |-> 0, test_pass_rate |-> 0, test_avg_duration |-> 0,
     test_total_duration |-> 0]

save_metrics_file(m) ==
    [exists |-> TRUE,
     test_total |-> m.total,
     test_passed |-> m.passed,
     test_failed |-> m.failed,
     test_skipped |-> m.skipped,
     test_pass_rate |-> Fmt2(calculate_pass_rate(m)),
     test_avg_duration |-> Fmt2(calculate_avg_duration(m)),
     test_total_duration |-> Fmt2(Float(m.total_duration, MsPerSecond))]

\* test-summary.json, without its timestamp
NoSummaryJson ==
    [exists |-> FALSE, total |-> 0, passed |-> 0, failed |-> 0, skipped |-> 0,
     pass_rate |-> NoFloat, failed_tests |-> <<>>, slowest_tests |-> <<>>]

generate_summary_json(m) ==
    [exists |-> TRUE, total |-> m.total, passed |-> m.passed, failed |-> m.failed,
     skipped |-> m.skipped, pass_rate |-> calculate_pass_rate(m),
     failed_tests |-> Names(get_failed_tests(m)),
     slowest_tests |->
        [i \in DOMAIN get_slowest_tests(m, 5) |->
            [name |-> get_slowest_tests(m, 5)[i].name,
             duration |-> get_slowest_tests(m, 5)[i].duration]]]

\* test-summary.md: headline, table, bar, and the two optional bullet sections
MarkdownStatus(pass_rate) ==
    IF FloatEQ(pass_rate, 100) THEN "All tests passed"
    ELSE IF FloatGE(pass_rate, 95) THEN "Tests mostly passed"
    ELSE IF FloatGE(pass_rate, 80) THEN "Some tests failed"
    ELSE "Many tests failed"

NoSummaryMd ==
    [exists |-> FALSE, status_text |-> "", total |-> 0, passed |-> 0, failed |-> 0,
     skipped |-> 0, bar |-> [filled |-> 0, empty |-> 0],
     failed_section |-> FALSE, failed_bullets |-> <<>>,
     slowest_section |-> FALSE, slowest_bullets |-> <<>>]

\* the failed-tests heading is written whether or not a test failed
generate_markdown_summary_always_failed_section(m) ==
    [exists |-> TRUE,
     status_text |-> MarkdownStatus(calculate_pass_rate(m)),
     total |-> m.total, passed |-> m.passed, failed |-> m.failed,
     skipped |-> m.skipped,
     bar |-> Bar(calculate_pass_rate(m)),
     failed_section |-> TRUE,
     failed_bullets |-> Names(get_failed_tests(m)),
     slowest_section |-> get_slowest_tests(m, 5) # <<>>,
     slowest_bullets |-> Names(get_slowest_tests(m, 5))]

generate_markdown_summary(m) ==
    [exists |-> TRUE,
     status_text |-> MarkdownStatus(calculate_pass_rate(m)),
     total |-> m.total, passed |-> m.passed, failed |-> m.failed,
     skipped |-> m.skipped,
     bar |-> Bar(calculate_pass_rate(m)),
     failed_section |-> get_failed_tests(m) # <<>>,
     failed_bullets |-> Names(get_failed_tests(m)),
     slowest_section |-> get_slowest_tests(m, 5) # <<>>,
     slowest_bullets |-> Names(get_slowest_tests(m, 5))]

----------------------------------------------------------------------------
(* utils/test_report_generator.py: TestReportGenerator *)

\* the {} returned when the results directory does not exist
EmptyDict ==
    [isEmpty |-> TRUE, total |-> 0, passed |-> 0, failed |-> 0, skipped |-> 0,
     tests |-> <<>>]

NewTestResults ==
    [isEmpty |-> FALSE, total |-> 0, passed |-> 0, failed |-> 0, skipped |-> 0,
     tests |-> <<>>]

\* a generator that files broken tests under failed
RCountStatusBrokenAsFailed(r, status) ==
    IF status = "passed" THEN [r EXCEPT !.passed = @ + 1]
    ELSE IF status \in {"failed", "broken"} THEN [r EXCEPT !.failed = @ + 1]
    ELSE IF status = "skipped" THEN [r EXCEPT !.skipped = @ + 1]
    ELSE r

\* the status buckets of the generator: passed, failed, skipped (no broken)
RCountStatus(r, status) ==
    IF status = "passed" THEN [r EXCEPT !.passed = @ + 1]
    ELSE IF status = "failed" THEN [r EXCEPT !.failed = @ + 1]
    ELSE IF status = "skipped" THEN [r EXCEPT !.skipped = @ + 1]
    ELSE r

\* The try block of the generator for one file: stop - start is not clamped and
\* raises on a null operand, after total and the status bucket were counted.
RParseResultFile(r, f) ==
    IF f.json = "invalid" THEN r
    ELSE
        LET r1 == [r EXCEPT !.total = @ + 1] IN
        IF f.json # "object" THEN r1
        ELSE
            LET status == GetStr(f.status, "unknown")
                r2 == RCountStatus(r1, status)
                start == Get(f.start, JNum(0))
                stop == Get(f.stop, JNum(0))
            IN  IF ~(IsNum(start) /\ IsNum(stop)) THEN r2
                ELSE [r2 EXCEPT
                        !.tests = Append(@,
                            [name |-> GetStr(f.name, "Unknown"),
                             status |-> status,
                             duration |-> stop.v - start.v,
                             description |-> "",
                             steps |-> <<>>,
                             attachments |-> <<>>])]

RECURSIVE RParseFrom(_, _, _)
RParseFrom(r, fl, i) ==
    IF i > Len(fl) THEN r ELSE RParseFrom(RParseResultFile(r, fl[i]), fl, i + 1)

\* the generator without its exists() test: a missing directory globs to nothing
report_parse_allure_results_no_exists_check(exists, fl) ==
    RParseFrom(NewTestResults, fl, 1)

report_parse_allure_results(exists, fl) ==
    IF ~exists THEN EmptyDict ELSE RParseFrom(NewTestResults, fl, 1)

\* pass_rate = (passed / total * 100) if total > 0 else 0
ReportPassRate(r) == IF r.total > 0 THEN Divide(r.passed * 100, r.total) ELSE Float(0, 1)

\* str.upper() exists on strings only: a JSON null status has no such attribute
IsStr(status) == status # JsonNull
Upper(status) ==
    CASE status = "passed" -> "PASSED"
      [] status = "failed" -> "FAILED"
      [] status = "skipped" -> "SKIPPED"
      [] status = "broken" -> "BROKEN"
      [] status = "flaky" -> "FLAKY"
      [] status = "unknown" -> "UNKNOWN"
      [] OTHER -> status

NamesWithStatus(tests, status) ==
    LET Is(t) == t.status = status IN Names(SelectSeq(tests, Is))

NoReport ==
    [exists |-> FALSE, raised |-> FALSE, kind |-> "", total |-> 0, passed |-> 0,
     failed |-> 0, skipped |-> 0, pass_rate |-> 0,
     bar |-> [filled |-> 0, empty |-> 0],
     passed_tests |-> <<>>, failed_tests |-> <<>>, breakdown |-> <<>>,
     status_line |-> "", attention |-> <<>>, recommendation |-> "",
     table |-> [total |-> <<>>, passed |-> <<>>, failed |-> <<>>, skipped |-> <<>>]]

AttributeError == [NoReport EXCEPT !.raised = TRUE]

\* the Failed row of the table shows the skipped count and the other way round
_generate_comprehensive_report_swapped(r) ==
    IF \E i \in DOMAIN r.tests : ~IsStr(r.tests[i].status) THEN AttributeError
    ELSE [NoReport EXCEPT
            !.exists = TRUE, !.kind = "comprehensive",
            !.total = r.total, !.passed = r.passed, !.failed = r.failed,
            !.skipped = r.skipped,
            !.pass_rate = Fmt1(ReportPassRate(r)),
            !.bar = Bar(ReportPassRate(r)),
            !.passed_tests = NamesWithStatus(r.tests, "passed"),
            !.failed_tests = NamesWithStatus(r.tests, "failed"),
            !.breakdown = [i \in DOMAIN r.tests |-> Upper(r.tests[i].status)],
            !.table = [total |-> Str(r.total), passed |-> Str(r.passed),
                       failed |-> Str(r.skipped), skipped |-> Str(r.failed)]]

\* The comprehensive report: the summary table (its four count rows as printed
\* text), pass rate and bar, the passed and failed sections, and the breakdown
\* with test['status'].upper() of every record.
_generate_comprehensive_report(r) ==
    IF \E i \in DOMAIN r.tests : ~IsStr(r.tests[i].status) THEN AttributeError
    ELSE [NoReport EXCEPT
            !.exists = TRUE, !.kind = "comprehensive",
            !.total = r.total, !.passed = r.passed, !.failed = r.failed,
            !.skipped = r.skipped,
            !.pass_rate = Fmt1(ReportPassRate(r)),
            !.bar = Bar(ReportPassRate(r)),
            !.passed_tests = NamesWithStatus(r.tests, "passed"),
            !.failed_tests = NamesWithStatus(r.tests, "failed"),
            !.breakdown = [i \in DOMAIN r.tests |-> Upper(r.tests[i].status)],
            !.table = [total |-> Str(r.total), passed |-> Str(r.passed),
                       failed |-> Str(r.failed), skipped |-> Str(r.skipped)]]

\* the status line follows passed = total instead of failed = 0
_generate_executive_summary_by_passed(r) ==
    [NoReport EXCEPT
        !.exists = TRUE, !.kind = "executive",
        !.total = r.total, !.failed = r.failed,
        !.pass_rate = Fmt1(ReportPassRate(r)),
        !.status_line = IF r.passed = r.total THEN "All tests passed!"
                        ELSE "test(s) require attention",
        !.attention = IF r.passed = r.total THEN <<>> ELSE Str(r.failed),
        !.recommendation = IF FloatGE(ReportPassRate(r), 95)
                           THEN "Production deployment approved."
                           ELSE "Review failures before deployment."]

\* The executive summary: totals, the status line ("<failed> test(s) require
\* attention" keeps its number in attention), and the recommendation.
_generate_executive_summary(r) ==
    [NoReport EXCEPT
        !.exists = TRUE, !.kind = "executive",
        !.total = r.total, !.failed = r.failed,
        !.pass_rate = Fmt1(ReportPassRate(r)),
        !.status_line = IF r.failed = 0 THEN "All tests passed!"
                        ELSE "test(s) require attention",
        !.attention = IF r.failed = 0 THEN <<>> ELSE Str(r.failed),
        !.recommendation = IF FloatGE(ReportPassRate(r), 95)
                           THEN "Production deployment approved."
                           ELSE "Review failures before deployment."]

_generate_basic_report(r) ==
    [NoReport EXCEPT
        !.exists = TRUE, !.kind = "basic",
        !.total = r.total, !.passed = r.passed, !.failed = r.failed,
        !.skipped = r.skipped]

\* an unrecognized template identifier is an error instead of the basic report
generate_markdown_report_strict(r, tmpl) ==
    IF tmpl = "comprehensive" THEN _generate_comprehensive_report(r)
    ELSE IF tmpl = "executive" THEN _generate_executive_summary(r)
    ELSE [NoReport EXCEPT !.raised = TRUE]

generate_markdown_report(r, tmpl) ==
    IF tmpl = "comprehensive" THEN _generate_comprehensive_report(r)
    ELSE IF tmpl = "executive" THEN _generate_executive_summary(r)
    ELSE _generate_basic_report(r)

\* convert_with_pandoc: the output file, or None (no file) when pandoc is missing
\* (FileNotFoundError) or exits non-zero (CalledProcessError)
convert_with_pandoc(converted, pandocState, output) ==
    IF pandocState = "ok" THEN converted \cup {output} ELSE converted

\* the band printed by generate_reports.main, nothing when total = 0
MainSummaryBand(r) ==
    IF r.total > 0
    THEN IF FloatGE(ReportPassRate(r), 95) THEN "Excellent"
         ELSE IF FloatGE(ReportPassRate(r), 80) THEN "Good"
         ELSE "Warning"
    ELSE ""

----------------------------------------------------------------------------
(* The file system the scripts write to *)

EmptyFs(outputDir) ==
    [output_dir |-> outputDir,
     metrics_txt |-> NoMetricsFile,
     summary_json |-> NoSummaryJson,
     summary_md |-> NoSummaryMd,
     report_md |-> NoReport,
     obsidian_md |-> NoReport,
     executive_md |-> NoReport,
     converted |-> {},
     oserror |-> ""]

NoCall ==
    [op |-> "none", count |-> 0, rate |-> NoFloat, list |-> <<>>, badge |-> NoBadge,
     selector |-> "", outcome |-> "", result |-> "", raised |-> "", logged |-> <<>>]

\* no browser page, nothing logged, no logger created
NoLogger == [exists |-> FALSE, level |-> "NOTSET", propagate |-> TRUE, handlers |-> <<>>]
LoggerNames == {"pages.base_page", "pages.login_page", "api", "screenshot"}
NoLoggers == [n \in LoggerNames |-> NoLogger]
NoPages ==
    /\ url = <<>>
    /\ log = <<>>
    /\ loggers = NoLoggers

Templates == {"comprehensive", "executive", "custom"}
PandocStates == {"missing", "fails", "ok"}

Init ==
    /\ prog \in {"metrics", "report"}
    /\ files \in Dirs
    /\ dirExists \in BOOLEAN
    /\ (~dirExists => files = <<>>)
    /\ template \in IF prog = "report" THEN Templates ELSE {"comprehensive"}
    /\ pandoc \in IF prog = "report" THEN PandocStates ELSE {"missing"}
    /\ fs0 \in IF prog = "report" THEN {EmptyFs(FALSE), EmptyFs(TRUE)}
               ELSE {EmptyFs(FALSE)}
    /\ fs = fs0
    /\ pc = "start"
    /\ idx = 0
    /\ metrics = _get_empty_metrics
    /\ results = EmptyDict
    /\ console = NoConsole
    /\ exitCode = NotExited
    /\ call = NoCall
    /\ NoPages

Env == <<prog, dirExists, files, template, pandoc, fs0, call, url, log, loggers>>

----------------------------------------------------------------------------
(* scripts/calculate_metrics.py: main and the scan of parse_allure_results *)

\* parse_allure_results up to the loop: a missing directory and an empty glob
\* both return the empty metrics
M_ParseBegin ==
    /\ prog = "metrics" /\ pc = "start"
    /\ metrics' = _get_empty_metrics
    /\ IF ~dirExists \/ Len(files) = 0
       THEN pc' = "main" /\ idx' = idx
       ELSE pc' = "scan" /\ idx' = 1
    /\ UNCHANGED <<Env, results, fs, console, exitCode>>

\* a failing file ends the whole scan
M_ParseFileAbort ==
    /\ prog = "metrics" /\ pc = "scan" /\ idx <= Len(files)
    /\ metrics' = ParseResultFile(metrics, files[idx])
    /\ idx' = IF Len(metrics'.tests) = Len(metrics.tests) THEN Len(files) + 1
              ELSE idx + 1
    /\ UNCHANGED <<Env, pc, results, fs, console, exitCode>>

\* one iteration of the for loop: the try block, its except clause swallowing
\* every exception, then the next file
M_ParseFile ==
    /\ prog = "metrics" /\ pc = "scan" /\ idx <= Len(files)
    /\ metrics' = ParseResultFile(metrics, files[idx])
    /\ idx' = idx + 1
    /\ UNCHANGED <<Env, pc, results, fs, console, exitCode>>

M_ParseReturn ==
    /\ prog = "metrics" /\ pc = "scan" /\ idx > Len(files)
    /\ pc' = "main"
    /\ UNCHANGED <<Env, idx, metrics, results, fs, console, exitCode>>

\* no tests: falls through to the other outputs instead of exiting
M_NoTestsFallThrough ==
    /\ prog = "metrics" /\ pc = "main" /\ metrics.total = 0
    /\ fs' = [fs EXCEPT !.metrics_txt = save_metrics_file(metrics),
                        !.summary_json = generate_summary_json(metrics)]
    /\ exitCode' = 0
    /\ pc' = "done"
    /\ UNCHANGED <<Env, idx, metrics, results, console>>

\* main, total = 0: the metrics file is written and the script exits 0
M_NoTests ==
    /\ prog = "metrics" /\ pc = "main" /\ metrics.total = 0
    /\ fs' = [fs EXCEPT !.metrics_txt = save_metrics_file(metrics)]
    /\ exitCode' = 0
    /\ pc' = "done"
    /\ UNCHANGED <<Env, idx, metrics, results, console>>

M_PrintMetrics ==
    /\ prog = "metrics" /\ pc = "main" /\ metrics.total # 0
    /\ console' = print_metrics(metrics)
    /\ pc' = "save"
    /\ UNCHANGED <<Env, idx, metrics, results, fs, exitCode>>

M_SaveMetricsFile ==
    /\ prog = "metrics" /\ pc = "save"
    /\ fs' = [fs EXCEPT !.metrics_txt = save_metrics_file(metrics)]
    /\ pc' = "json"
    /\ UNCHANGED <<Env, idx, metrics, results, console, exitCode>>

M_GenerateSummaryJson ==
    /\ prog = "metrics" /\ pc = "json"
    /\ fs' = [fs EXCEPT !.summary_json = generate_summary_json(metrics)]
    /\ pc' = "md"
    /\ UNCHANGED <<Env, idx, metrics, results, console, exitCode>>

M_GenerateMarkdownSummary ==
    /\ prog = "metrics" /\ pc = "md"
    /\ fs' = [fs EXCEPT !.summary_md = generate_markdown_summary(metrics)]
    /\ pc' = "exit"
    /\ UNCHANGED <<Env, idx, metrics, results, console, exitCode>>

\* exits like the full-report script: 1 when a test failed
M_ExitFailing ==
    /\ prog = "metrics" /\ pc = "exit"
    /\ exitCode' = IF metrics.failed > 0 THEN 1 ELSE 0
    /\ pc' = "done"
    /\ UNCHANGED <<Env, idx, metrics, results, fs, console>>

\* sys.exit(0) in both branches
M_Exit ==
    /\ prog = "metrics" /\ pc = "exit"
    /\ exitCode' = IF metrics.failed > 0 THEN 0 ELSE 0
    /\ pc' = "done"
    /\ UNCHANGED <<Env, idx, metrics, results, fs, console>>

----------------------------------------------------------------------------
(* scripts/generate_reports.py: main *)

\* TestReportGenerator(): the constructor creates docs/generated_reports
R_Construct ==
    /\ prog = "report" /\ pc = "start"
    /\ fs' = [fs EXCEPT !.output_dir = TRUE]
    /\ pc' = "exists"
    /\ UNCHANGED <<Env, idx, metrics, results, console, exitCode>>

\* no results directory: sys.exit(1)
R_NoResultsDir ==
    /\ prog = "report" /\ pc = "exists" /\ ~dirExists
    /\ exitCode' = 1
    /\ pc' = "done"
    /\ UNCHANGED <<Env, idx, metrics, results, fs, console>>

\* the glob of main: sys.exit(1) when it finds no result file
R_CountFiles ==
    /\ prog = "report" /\ pc = "exists" /\ dirExists
    /\ IF Len(files) = 0
       THEN exitCode' = 1 /\ pc' = "done"
       ELSE exitCode' = exitCode /\ pc' = "all"
    /\ UNCHANGED <<Env, idx, metrics, results, fs, console>>

\* generate_all_formats(template): parse, render, save the report and its
\* Obsidian copy, convert to html, docx and pdf.  It returns early when nothing
\* was counted; an exception of the renderer is caught nowhere and ends the
\* process with exit status 1.
R_GenerateAllFormats ==
    /\ prog = "report" /\ pc = "all"
    /\ LET r == report_parse_allure_results(dirExists, files)
           content == generate_markdown_report(r, template)
       IN  IF r.isEmpty \/ r.total = 0
           THEN fs' = fs /\ exitCode' = exitCode /\ pc' = "exec"
           ELSE IF content.raised
           THEN fs' = fs /\ exitCode' = 1 /\ pc' = "done"
           ELSE /\ fs' = [fs EXCEPT
                            !.report_md = content,
                            !.obsidian_md = content,
                            !.converted =
                                convert_with_pandoc(
                                    convert_with_pandoc(
                                        convert_with_pandoc(@, pandoc, "report.html"),
                                        pandoc, "report.docx"),
                                    pandoc, "report.pdf")]
                /\ exitCode' = exitCode
                /\ pc' = "exec"
    /\ UNCHANGED <<Env, idx, metrics, results, console>>

\* a converter that is missing or fails ends the run with a traceback, after
\* the executive summary itself was saved
R_ExecutiveSummaryPandocRaises ==
    /\ prog = "report" /\ pc = "exec"
    /\ results' = report_parse_allure_results(dirExists, files)
    /\ fs' = IF results'.isEmpty THEN fs
             ELSE [fs EXCEPT
                    !.executive_md = generate_markdown_report(results', "executive"),
                    !.converted =
                        convert_with_pandoc(
                            convert_with_pandoc(@, pandoc, "executive_summary.html"),
                            pandoc, "executive_summary.docx")]
    /\ IF ~results'.isEmpty /\ pandoc # "ok"
       THEN exitCode' = 1 /\ pc' = "done"
       ELSE exitCode' = exitCode /\ pc' = "print"
    /\ UNCHANGED <<Env, idx, metrics, console>>

\* the executive summary of main: parse again, render, save, convert twice
R_ExecutiveSummary ==
    /\ prog = "report" /\ pc = "exec"
    /\ results' = report_parse_allure_results(dirExists, files)
    /\ fs' = IF results'.isEmpty THEN fs
             ELSE [fs EXCEPT
                    !.executive_md = generate_markdown_report(results', "executive"),
                    !.converted =
                        convert_with_pandoc(
                            convert_with_pandoc(@, pandoc, "executive_summary.html"),
                            pandoc, "executive_summary.docx")]
    /\ pc' = "print"
    /\ UNCHANGED <<Env, idx, metrics, console, exitCode>>

R_PrintSummary ==
    /\ prog = "report" /\ pc = "print"
    /\ console' = [NoConsole EXCEPT !.printed = TRUE, !.band = MainSummaryBand(results)]
    /\ pc' = "exit"
    /\ UNCHANGED <<Env, idx, metrics, results, fs, exitCode>>

\* sys.exit(1) when a test failed, sys.exit(0) otherwise
R_Exit ==
    /\ prog = "report" /\ pc = "exit"
    /\ exitCode' = IF results.failed > 0 THEN 1 ELSE 0
    /\ pc' = "done"
    /\ UNCHANGED <<Env, idx, metrics, results, fs, console>>

Next ==
    \/ M_ParseBegin
    \/ M_ParseFile
    \/ M_ParseReturn
    \/ M_NoTests
    \/ M_PrintMetrics
    \/ M_SaveMetricsFile
    \/ M_GenerateSummaryJson
    \/ M_GenerateMarkdownSummary
    \/ M_Exit
    \/ R_Construct
    \/ R_NoResultsDir
    \/ R_CountFiles
    \/ R_GenerateAllFormats
    \/ R_ExecutiveSummary
    \/ R_PrintSummary
    \/ R_Exit

Spec == Init /\ [][Next]_vars

----------------------------------------------------------------------------
(* Direct calls of the calculator's methods on a parsed metrics value *)

InitCalc ==
    /\ prog = "calc"
    /\ files \in TestDirs
    /\ dirExists = TRUE
    /\ template = "comprehensive"
    /\ pandoc = "missing"
    /\ fs0 = EmptyFs(FALSE)
    /\ fs = fs0
    /\ pc = "parsed"
    /\ idx = Len(files) + 1
    /\ metrics = parse_allure_results(dirExists, files)
    /\ results = EmptyDict
    /\ console = NoConsole
    /\ exitCode = NotExited
    /\ call = NoCall
    /\ NoPages

CalcFrame == <<prog, dirExists, files, template, pandoc, pc, idx, metrics, results,
               fs, fs0, console, exitCode, url, log, loggers>>

CallPassRate ==
    /\ prog = "calc"
    /\ call' = [NoCall EXCEPT !.op = "calculate_pass_rate",
                              !.rate = calculate_pass_rate(metrics)]
    /\ UNCHANGED CalcFrame

\* metrics['tests'].sort(...) in place of sorted(metrics['tests'], ...)
CallSlowestTestsSortInPlace ==
    /\ prog = "calc"
    /\ \E count \in (0 - NegN)..(MaxTests + 1) :
        call' = [NoCall EXCEPT !.op = "get_slowest_tests",
                               !.count = count,
                               !.list = get_slowest_tests(metrics, count)]
    /\ metrics' = [metrics EXCEPT !.tests = SortedByDurationDesc(@)]
    /\ UNCHANGED <<prog, dirExists, files, template, pandoc, pc, idx, results,
                   fs, fs0, console, exitCode, url, log, loggers>>

CallSlowestTests ==
    /\ prog = "calc"
    /\ \E count \in (0 - NegN)..(MaxTests + 1) :
        call' = [NoCall EXCEPT !.op = "get_slowest_tests",
                               !.count = count,
                               !.list = get_slowest_tests(metrics, count)]
    /\ UNCHANGED CalcFrame

CallFailedTests ==
    /\ prog = "calc"
    /\ call' = [NoCall EXCEPT !.op = "get_failed_tests",
                              !.list = get_failed_tests(metrics)]
    /\ UNCHANGED CalcFrame

NextCalc ==
    \/ CallPassRate
    \/ CallSlowestTests
    \/ CallFailedTests

SpecCalc == InitCalc /\ [][NextCalc]_vars

----------------------------------------------------------------------------
(* Direct calls of the renderers on the parse of a larger directory *)

InitRates ==
    /\ prog = "calc"
    /\ files \in RateDirs
    /\ dirExists = TRUE
    /\ template = "comprehensive"
    /\ pandoc = "missing"
    /\ fs0 = EmptyFs(FALSE)
    /\ fs = fs0
    /\ pc = "parsed"
    /\ idx = Len(files) + 1
    /\ metrics = parse_allure_results(dirExists, files)
    /\ results = report_parse_allure_results(dirExists, files)
    /\ console = NoConsole
    /\ exitCode = NotExited
    /\ call = NoCall
    /\ NoPages

CallBadge ==
    /\ prog = "calc"
    /\ call' = [NoCall EXCEPT !.op = "create_gitlab_badge_data",
                              !.badge = create_gitlab_badge_data(metrics)]
    /\ UNCHANGED CalcFrame

CallPrintMetrics ==
    /\ prog = "calc"
    /\ console' = print_metrics(metrics)
    /\ UNCHANGED <<Env, pc, idx, metrics, results, fs, exitCode>>

CallMarkdownSummary ==
    /\ prog = "calc"
    /\ fs' = [fs EXCEPT !.summary_md = generate_markdown_summary(metrics)]
    /\ UNCHANGED <<Env, pc, idx, metrics, results, console, exitCode>>

\* the test summary at the end of generate_reports.main
CallMainSummary ==
    /\ prog = "calc"
    /\ console' = [NoConsole EXCEPT !.printed = TRUE, !.band = MainSummaryBand(results)]
    /\ UNCHANGED <<Env, pc, idx, metrics, results, fs, exitCode>>

CallExecutiveReport ==
    /\ prog = "calc"
    /\ fs' = [fs EXCEPT !.executive_md = generate_markdown_report(results, "executive")]
    /\ UNCHANGED <<Env, pc, idx, metrics, results, console, exitCode>>

CallComprehensiveReport ==
    /\ prog = "calc"
    /\ fs' = [fs EXCEPT !.report_md = generate_markdown_report(results, "comprehensive")]
    /\ UNCHANGED <<Env, pc, idx, metrics, results, console, exitCode>>

NextRates ==
    \/ CallBadge
    \/ CallPrintMetrics
    \/ CallMarkdownSummary
    \/ CallMainSummary
    \/ CallExecutiveReport
    \/ CallComprehensiveReport

SpecRates == InitRates /\ [][NextRates]_vars

----------------------------------------------------------------------------
(* Every method of the calculator that takes the metrics, called in any
   sequence on the parse of a small directory *)

InitFrame ==
    /\ InitCalc
    /\ Len(files) <= MaxFrameFiles

CallAvgDuration ==
    /\ prog = "calc"
    /\ call' = [NoCall EXCEPT !.op = "calculate_avg_duration",
                              !.rate = calculate_avg_duration(metrics)]
    /\ UNCHANGED CalcFrame

CallSaveMetricsFile ==
    /\ prog = "calc"
    /\ fs' = [fs EXCEPT !.metrics_txt = save_metrics_file(metrics)]
    /\ UNCHANGED <<Env, pc, idx, metrics, results, console, exitCode>>

CallSummaryJson ==
    /\ prog = "calc"
    /\ fs' = [fs EXCEPT !.summary_json = generate_summary_json(metrics)]
    /\ UNCHANGED <<Env, pc, idx, metrics, results, console, exitCode>>

NextFrame ==
    \/ CallPassRate
    \/ CallAvgDuration
    \/ CallSlowestTests
    \/ CallFailedTests
    \/ CallPrintMetrics
    \/ CallSaveMetricsFile
    \/ CallBadge
    \/ CallSummaryJson
    \/ CallMarkdownSummary

SpecFrame == InitFrame /\ [][NextFrame]_vars

----------------------------------------------------------------------------
(* Direct calls of the two readers on the same results directory, which may be
   missing *)

InitReaders ==
    /\ prog = "calc"
    /\ files \in Dirs
    /\ dirExists \in BOOLEAN
    /\ (~dirExists => files = <<>>)
    /\ template = "comprehensive"
    /\ pandoc = "missing"
    /\ fs0 = EmptyFs(FALSE)
    /\ fs = fs0
    /\ pc = "start"
    /\ idx = 0
    /\ metrics = _get_empty_metrics
    /\ results = EmptyDict
    /\ console = NoConsole
    /\ exitCode = NotExited
    /\ call = NoCall
    /\ NoPages

\* TestMetricsCalculator().parse_allure_results()
CallMetricsReader ==
    /\ prog = "calc" /\ pc \in {"start", "report_read"}
    /\ metrics' = parse_allure_results(dirExists, files)
    /\ pc' = IF pc = "start" THEN "metrics_read" ELSE "both_read"
    /\ UNCHANGED <<Env, idx, results, fs, console, exitCode>>

\* TestReportGenerator().parse_allure_results()
CallReportReader ==
    /\ prog = "calc" /\ pc \in {"start", "metrics_read"}
    /\ results' = report_parse_allure_results(dirExists, files)
    /\ pc' = IF pc = "start" THEN "report_read" ELSE "both_read"
    /\ UNCHANGED <<Env, idx, metrics, fs, console, exitCode>>

NextReaders ==
    \/ CallMetricsReader
    \/ CallReportReader

SpecReaders == InitReaders /\ [][NextReaders]_vars

----------------------------------------------------------------------------
(* Writes that fail: write_text raises OSError (read-only target, full disk) and
   neither script catches it, so the traceback ends the process with status 1 *)

WriteFails(artifact) ==
    /\ fs' = [fs EXCEPT !.oserror = artifact]
    /\ exitCode' = 1
    /\ pc' = "done"

M_NoTestsWriteFails ==
    /\ prog = "metrics" /\ pc = "main" /\ metrics.total = 0
    /\ WriteFails("metrics.txt")
    /\ UNCHANGED <<Env, idx, metrics, results, console>>

M_SaveMetricsFileFails ==
    /\ prog = "metrics" /\ pc = "save"
    /\ WriteFails("metrics.txt")
    /\ UNCHANGED <<Env, idx, metrics, results, console>>

M_GenerateSummaryJsonFails ==
    /\ prog = "metrics" /\ pc = "json"
    /\ WriteFails("test-summary.json")
    /\ UNCHANGED <<Env, idx, metrics, results, console>>

M_GenerateMarkdownSummaryFails ==
    /\ prog = "metrics" /\ pc = "md"
    /\ WriteFails("test-summary.md")
    /\ UNCHANGED <<Env, idx, metrics, results, console>>

\* generate_all_formats got as far as its first write
ReachesWrites ==
    LET r == report_parse_allure_results(dirExists, files)
    IN  /\ ~(r.isEmpty \/ r.total = 0)
        /\ ~generate_markdown_report(r, template).raised

\* save_markdown_report raises inside generate_all_formats
R_SaveMarkdownReportFails ==
    /\ prog = "report" /\ pc = "all" /\ ReachesWrites
    /\ WriteFails("test_report.md")
    /\ UNCHANGED <<Env, idx, metrics, results, console>>

\* generate_obsidian_compatible raises after the timestamped report was saved
R_ObsidianWriteFails ==
    /\ prog = "report" /\ pc = "all" /\ ReachesWrites
    /\ fs' = [fs EXCEPT
                !.report_md = generate_markdown_report(
                    report_parse_allure_results(dirExists, files), template),
                !.oserror = "obsidian.md"]
    /\ exitCode' = 1
    /\ pc' = "done"
    /\ UNCHANGED <<Env, idx, metrics, results, console>>

\* save_markdown_report raises for executive_summary.md in main
R_ExecutiveSummaryWriteFails ==
    /\ prog = "report" /\ pc = "exec"
    /\ results' = report_parse_allure_results(dirExists, files)
    /\ ~results'.isEmpty
    /\ WriteFails("executive_summary.md")
    /\ UNCHANGED <<Env, idx, metrics, console>>

NextIO ==
    \/ Next
    \/ M_NoTestsWriteFails
    \/ M_SaveMetricsFileFails
    \/ M_GenerateSummaryJsonFails
    \/ M_GenerateMarkdownSummaryFails
    \/ R_SaveMarkdownReportFails
    \/ R_ObsidianWriteFails
    \/ R_ExecutiveSummaryWriteFails

SpecIO == Init /\ [][NextIO]_vars

----------------------------------------------------------------------------
(* utils/logger.py: get_logger *)

Levels == {"DEBUG", "INFO", "WARNING", "ERROR", "CRITICAL"}

\* the handlers in the order of the three addHandler calls
ThreeHandlers == <<"file_handler", "console_handler", "error_handler">>

\* a get_logger without the test of logger.handlers
get_logger_always_adds(L, name, level) ==
    [L EXCEPT ![name] = [exists |-> TRUE, level |-> level, propagate |-> FALSE,
                         handlers |-> @.handlers \o ThreeHandlers]]

\* logging.getLogger(name) creates the logger on first use; a logger that has
\* handlers is returned as it is, otherwise level, propagate and the three
\* handlers are set
get_logger(L, name, level) ==
    IF L[name].handlers # <<>> THEN L
    ELSE [L EXCEPT ![name] = [exists |-> TRUE, level |-> level, propagate |-> FALSE,
                              handlers |-> @.handlers \o ThreeHandlers]]

InitLogger ==
    /\ prog = "logger"
    /\ files = <<>>
    /\ dirExists = FALSE
    /\ template = "comprehensive"
    /\ pandoc = "missing"
    /\ fs0 = EmptyFs(FALSE)
    /\ fs = fs0
    /\ pc = "start"
    /\ idx = 0
    /\ metrics = _get_empty_metrics
    /\ results = EmptyDict
    /\ console = NoConsole
    /\ exitCode = NotExited
    /\ call = NoCall
    /\ NoPages

\* get_logger(name, level); the value returned is the logger of that name
CallGetLogger ==
    /\ prog = "logger"
    /\ \E name \in LoggerNames, level \in Levels :
        /\ loggers' = get_logger(loggers, name, level)
        /\ call' = [NoCall EXCEPT !.op = "get_logger",
                                  !.selector = name,
                                  !.outcome = level,
                                  !.result = name]
    /\ UNCHANGED <<prog, dirExists, files, template, pandoc, pc, idx, metrics,
                   results, fs, fs0, console, exitCode, url, log>>

NextLogger == CallGetLogger

SpecLogger == InitLogger /\ [][NextLogger]_vars

----------------------------------------------------------------------------
(* utils/logger.py: log_test_step; pages/base_page.py and pages/login_page.py.
   A call returns [result, raised, logged]: the value returned ("" when it
   raised), the exception that left the call ("" when it returned) and the
   records it logged.  The browser is the environment: each browser call has
   one of the outcomes listed, chosen when the call is made. *)

\* what a browser call can raise: playwright's TimeoutError and Error are
\* subclasses of Exception, KeyboardInterrupt is a BaseException only
Raises == {"TimeoutError", "Error", "KeyboardInterrupt"}
IsException(e) == e \in {"TimeoutError", "Error"}

VisibleOutcomes == {"visible", "hidden"} \cup Raises
ActionOutcomes == {"ok"} \cup Raises
StepOutcomes == {"r1", "r2"} \cup Raises

Returned(value, logged) == [result |-> value, raised |-> "", logged |-> logged]
Raised(e, logged) == [result |-> "", raised |-> e, logged |-> logged]
PyBool(b) == IF b THEN "True" ELSE "False"

Record(level, kind, step) == [level |-> level, kind |-> kind, step |-> step]

\* a decorator that logs the failure and swallows the exception
log_test_step_swallowing(description, inner) ==
    [result |-> IF inner.raised = "" THEN inner.result ELSE "None",
     raised |-> IF IsException(inner.raised) THEN "" ELSE inner.raised,
     logged |->
        <<Record("info", "STEP", description)>> \o inner.logged \o
        (IF inner.raised = "" THEN <<Record("info", "PASSED", description)>>
         ELSE IF IsException(inner.raised)
              THEN <<Record("error", "FAILED", description)>>
              ELSE <<>>)]

\* wrapper of log_test_step(description) around a call whose outcome is inner:
\* "except Exception" logs and re-raises, any other exception passes through
log_test_step(description, inner) ==
    [result |-> inner.result,
     raised |-> inner.raised,
     logged |->
        <<Record("info", "STEP", description)>> \o inner.logged \o
        (IF inner.raised = "" THEN <<Record("info", "PASSED", description)>>
         ELSE IF IsException(inner.raised)
              THEN <<Record("error", "FAILED", description)>>
              ELSE <<>>)]

\* page.locator(selector).is_visible()
locator_is_visible(outcome) ==
    IF outcome = "visible" THEN Returned("True", <<>>)
    ELSE IF outcome = "hidden" THEN Returned("False", <<>>)
    ELSE Raised(outcome, <<>>)

\* BasePage.is_visible: a bare except returns False
is_visible(outcome) ==
    IF locator_is_visible(outcome).raised # "" THEN Returned("False", <<>>)
    ELSE locator_is_visible(outcome)

\* the four queries of LoginPage return the browser call as it is
is_username_visible(outcome) == locator_is_visible(outcome)
is_password_visible(outcome) == locator_is_visible(outcome)
is_login_button_visible(outcome) == locator_is_visible(outcome)
is_forgot_password_visible(outcome) == locator_is_visible(outcome)

dashboard_url == "dashboard"

\* fragment in page.url
UrlContains(u, fragment) == \E i \in DOMAIN u : u[i] = fragment

\* LoginPage.is_logged_in: both signals are evaluated inside one try block
is_logged_in(pageUrl, outcome) ==
    LET url_check == UrlContains(pageUrl, dashboard_url)
        user_menu_visible == locator_is_visible(outcome)
    IN  IF user_menu_visible.raised = ""
        THEN Returned(PyBool(url_check \/ user_menu_visible.result = "True"), <<>>)
        ELSE IF IsException(user_menu_visible.raised)
        THEN Returned("False", <<Record("debug", "Login check failed", "")>>)
        ELSE user_menu_visible

\* the body of LoginPage.login: fill, fill, click, wait_for_load_state
login_undecorated(outcome) ==
    IF outcome = "ok"
    THEN Returned("None", <<Record("info", "Attempting login", "")>>)
    ELSE IF IsException(outcome)
    THEN Raised(outcome, <<Record("info", "Attempting login", ""),
                           Record("error", "Login failed", "")>>)
    ELSE Raised(outcome, <<Record("info", "Attempting login", "")>>)

login(outcome) == log_test_step("Login with credentials", login_undecorated(outcome))

\* BasePage.navigate: log, then page.goto
navigate(outcome) ==
    IF outcome = "ok" THEN Returned("None", <<Record("info", "Navigating", "")>>)
    ELSE Raised(outcome, <<Record("info", "Navigating", "")>>)

quick_login(navOutcome, loginOutcome) ==
    log_test_step("Quick login (direct navigation + login)",
        IF navigate(navOutcome).raised # "" THEN navigate(navOutcome)
        ELSE [login(loginOutcome) EXCEPT
                !.logged = navigate(navOutcome).logged \o @])

\* a decorated function that returns a value or raises
wrapped_step(outcome) ==
    log_test_step("step",
        IF outcome \in Raises THEN Raised(outcome, <<>>) ELSE Returned(outcome, <<>>))

Selectors ==
    {"username_input", "password_input", "login_button", "error_message",
     "forgot_password_link", "user_menu"}

Urls == {<<"app", "login">>, <<"app", "dashboard">>, <<"app", "dashboard", "settings">>}

InitPages ==
    /\ prog = "pages"
    /\ files = <<>>
    /\ dirExists = FALSE
    /\ template = "comprehensive"
    /\ pandoc = "missing"
    /\ fs0 = EmptyFs(FALSE)
    /\ fs = fs0
    /\ pc = "start"
    /\ idx = 0
    /\ metrics = _get_empty_metrics
    /\ results = EmptyDict
    /\ console = NoConsole
    /\ exitCode = NotExited
    /\ call = NoCall
    /\ url \in Urls
    /\ log = <<>>
    /\ loggers = get_logger(get_logger(NoLoggers, "pages.base_page", "INFO"),
                            "pages.login_page", "INFO")

PagesFrame == <<prog, dirExists, files, template, pandoc, pc, idx, metrics, results,
                fs, fs0, console, exitCode>>

\* the call returned or raised r
Invoke(op, selector, outcome, r) ==
    /\ call' = [NoCall EXCEPT !.op = op, !.selector = selector, !.outcome = outcome,
                              !.result = r.result, !.raised = r.raised,
                              !.logged = r.logged]
    /\ log' = log \o r.logged

CallIsVisible ==
    /\ prog = "pages"
    /\ \E selector \in Selectors, outcome \in VisibleOutcomes :
        Invoke("BasePage.is_visible", selector, outcome, is_visible(outcome))
    /\ UNCHANGED <<PagesFrame, url, loggers>>

CallIsUsernameVisible ==
    /\ prog = "pages"
    /\ \E outcome \in VisibleOutcomes :
        Invoke("LoginPage.is_username_visible", "username_input", outcome,
               is_username_visible(outcome))
    /\ UNCHANGED <<PagesFrame, url, loggers>>

CallIsPasswordVisible ==
    /\ prog = "pages"
    /\ \E outcome \in VisibleOutcomes :
        Invoke("LoginPage.is_password_visible", "password_input", outcome,
               is_password_visible(outcome))
    /\ UNCHANGED <<PagesFrame, url, loggers>>

CallIsLoginButtonVisible ==
    /\ prog = "pages"
    /\ \E outcome \in VisibleOutcomes :
        Invoke("LoginPage.is_login_button_visible", "login_button", outcome,
               is_login_button_visible(outcome))
    /\ UNCHANGED <<PagesFrame, url, loggers>>

CallIsForgotPasswordVisible ==
    /\ prog = "pages"
    /\ \E outcome \in VisibleOutcomes :
        Invoke("LoginPage.is_forgot_password_visible", "forgot_password_link", outcome,
               is_forgot_password_visible(outcome))
    /\ UNCHANGED <<PagesFrame, url, loggers>>

CallIsLoggedIn ==
    /\ prog = "pages" /\ Len(log) < MaxLog
    /\ \E outcome \in VisibleOutcomes :
        Invoke("LoginPage.is_logged_in", "user_menu", outcome,
               is_logged_in(url, outcome))
    /\ UNCHANGED <<PagesFrame, url, loggers>>

\* where the browser is after the form was submitted depends on the server
CallLogin ==
    /\ prog = "pages" /\ Len(log) < MaxLog
    /\ \E outcome \in ActionOutcomes :
        /\ Invoke("LoginPage.login", "", outcome, login(outcome))
        /\ IF outcome = "ok" THEN url' \in Urls ELSE url' = url
    /\ loggers' = get_logger(loggers, "pages.login_page", "INFO")
    /\ UNCHANGED PagesFrame

CallQuickLogin ==
    /\ prog = "pages" /\ Len(log) < MaxLog
    /\ \E navOutcome \in ActionOutcomes, loginOutcome \in ActionOutcomes :
        /\ Invoke("LoginPage.quick_login", "",
                  IF navOutcome # "ok" THEN navOutcome ELSE loginOutcome,
                  quick_login(navOutcome, loginOutcome))
        /\ IF navOutcome = "ok" THEN url' \in Urls ELSE url' = url
    /\ loggers' = get_logger(loggers, "pages.login_page", "INFO")
    /\ UNCHANGED PagesFrame

CallWrappedStep ==
    /\ prog = "pages" /\ Len(log) < MaxLog
    /\ \E outcome \in StepOutcomes :
        Invoke("step", "", outcome, wrapped_step(outcome))
    /\ loggers' = get_logger(loggers, "pages.login_page", "INFO")
    /\ UNCHANGED <<PagesFrame, url>>

NextPages ==
    \/ CallIsVisible
    \/ CallIsUsernameVisible
    \/ CallIsPasswordVisible
    \/ CallIsLoginButtonVisible
    \/ CallIsForgotPasswordVisible
    \/ CallIsLoggedIn
    \/ CallLogin
    \/ CallQuickLogin
    \/ CallWrappedStep

SpecPages == InitPages /\ [][NextPages]_vars

----------------------------------------------------------------------------
(* Properties *)

Done == pc = "done"
AfterParse == prog = "metrics" /\ pc \notin {"start", "scan"}

\* the files the scan has gone through so far
Scanned == IF idx = 0 THEN 0 ELSE idx - 1

\* json.load accepted the file, so the loop body counted it in total
Counted(f) == f.json # "invalid"

\* the try block runs to its end on this file: no exception
Valid(f) ==
    /\ f.json = "object"
    /\ IsNum(Get(f.start, JNum(0)))
    /\ IsNum(Get(f.stop, JNum(0)))

KnownStatuses == {"passed", "failed", "skipped", "broken"}

\* C1: for passed <= total, calculate_pass_rate never divides by zero, returns
\* 0.0 when total = 0 and otherwise passed / total * 100, a value in [0, 100].
C1_PassRateGuardedAndInRange ==
    call.op = "calculate_pass_rate" =>
        /\ call.rate.kind = "float"
        /\ metrics.total = 0 => FloatEQ(call.rate, 0)
        /\ metrics.total > 0 =>
            call.rate.num * metrics.total = metrics.passed * 100 * call.rate.den
        /\ FloatGE(call.rate, 0)
        /\ call.rate.num <= 100 * call.rate.den

C1_Witness ==
    /\ call.op = "calculate_pass_rate"
    /\ metrics.passed > 0
    /\ metrics.passed < metrics.total

\* the failed count the full-report script ends up with for the directory
ReportFailedCount == report_parse_allure_results(dirExists, files).failed

\* C2: with at least one result file, generate_reports.main exits 1 exactly
\* when the failed count is > 0, and exits 0 for every set of result files in
\* which no record is failed.
C2_ExitOneOnlyWhenFailed ==
    (prog = "report" /\ Done /\ Len(files) > 0) =>
        /\ exitCode \in {0, 1}
        /\ exitCode = 1 <=> ReportFailedCount > 0

\* C3: calculate_metrics.main exits with code 0 on every path.
C3_MetricsAlwaysExitsZero ==
    prog = "metrics" =>
        /\ exitCode \in {NotExited, 0}
        /\ Done => exitCode = 0

C3_Witness == prog = "metrics" /\ Done /\ metrics.failed > 0 /\ exitCode = 0

\* C4: with zero result files (directory missing or without result file) the
\* metrics-only script writes metrics.txt with every metric zero and exits 0,
\* and writes neither the JSON nor the Markdown summary.
C4_NoFilesAllZeroSummary ==
    (prog = "metrics" /\ Done /\ Len(files) = 0) =>
        /\ exitCode = 0
        /\ fs.metrics_txt =
            [exists |-> TRUE, test_total |-> 0, test_passed |-> 0,
             test_failed |-> 0, test_skipped |-> 0, test_pass_rate |-> 0,
             test_avg_duration |-> 0, test_total_duration |-> 0]
        /\ ~fs.summary_json.exists
        /\ ~fs.summary_md.exists

C4_Witness ==
    /\ prog = "metrics" /\ Done /\ ~dirExists
    /\ fs.metrics_txt.exists /\ exitCode = 0

\* C5: with zero result files generate_reports.main exits 1 and writes nothing:
\* the file system after the run is the file system before it.
C5_NoFilesWritesNothing ==
    (prog = "report" /\ Done /\ Len(files) = 0) =>
        /\ exitCode = 1
        /\ fs = fs0

\* the counted files of the scanned prefix whose status is none of the four
UnknownCounted ==
    {i \in 1..Scanned : Counted(files[i]) /\ files[i].status \notin KnownStatuses}

\* C6: the counts of the calculator are non-negative, their sum is at most
\* total, and the shortfall is the number of counted files whose status is
\* none of passed, failed, skipped, broken.
C6_CountsWithinTotal ==
    prog = "metrics" =>
        /\ metrics.total >= 0 /\ metrics.passed >= 0 /\ metrics.failed >= 0
        /\ metrics.skipped >= 0 /\ metrics.broken >= 0
        /\ metrics.passed + metrics.failed + metrics.skipped + metrics.broken
            <= metrics.total
        /\ metrics.total
            - (metrics.passed + metrics.failed + metrics.skipped + metrics.broken)
            = Cardinality(UnknownCounted)

C6_Witness ==
    /\ AfterParse
    /\ metrics.broken > 0
    /\ metrics.total > metrics.passed + metrics.failed + metrics.skipped + metrics.broken

Durations(tests) == [i \in DOMAIN tests |-> tests[i].duration]

\* what C7 says of a call get_slowest_tests(metrics, count) that returned list
SlowestContract(tests, count, list) ==
    /\ Len(list) <= count
    /\ Len(tests) <= count => Len(list) = Len(tests)
    /\ \A i \in DOMAIN list : \E k \in DOMAIN tests : tests[k] = list[i]
    /\ \A i, j \in DOMAIN list :
        i < j =>
            \/ list[i].duration > list[j].duration
            \/ /\ list[i].duration = list[j].duration
               /\ list[i].fullName < list[j].fullName
    /\ \A k \in DOMAIN tests :
        (\A i \in DOMAIN list : list[i] # tests[k]) =>
            /\ Len(list) = count
            /\ \A i \in DOMAIN list : list[i].duration >= tests[k].duration
    /\ (Durations(tests) = <<5000, 1000, 9000, 3000>> /\ count = 2) =>
        Durations(list) = <<9000, 5000>>

\* C7 as stated: for every integer n, get_slowest_tests returns at most n
\* records, all of them when fewer than n exist, by duration descending, records
\* of equal duration in input order.
C7_SlowestForEveryInteger ==
    call.op = "get_slowest_tests" =>
        SlowestContract(metrics.tests, call.count, call.list)

\* C7 amended: the same for every integer n >= 0.
C7_SlowestForNonNegative ==
    (call.op = "get_slowest_tests" /\ call.count >= 0) =>
        SlowestContract(metrics.tests, call.count, call.list)

C7_Witness ==
    /\ call.op = "get_slowest_tests"
    /\ call.count = 2
    /\ Durations(metrics.tests) = <<5000, 1000, 9000, 3000>>
    /\ Durations(call.list) = <<9000, 5000>>

\* C8: get_failed_tests returns exactly the records with status failed, in
\* their order in metrics['tests']; it is empty when no record is failed.
C8_FailedExactlyInOrder ==
    call.op = "get_failed_tests" =>
        /\ \A i \in DOMAIN call.list :
            /\ call.list[i].status = "failed"
            /\ \E k \in DOMAIN metrics.tests : metrics.tests[k] = call.list[i]
        /\ \A k \in DOMAIN metrics.tests :
            metrics.tests[k].status = "failed" =>
                \E i \in DOMAIN call.list : call.list[i] = metrics.tests[k]
        /\ \A i, j \in DOMAIN call.list :
            i < j => call.list[i].fullName < call.list[j].fullName

C8_Witness ==
    /\ call.op = "get_failed_tests"
    /\ Len(call.list) = 2
    /\ Len(metrics.tests) = 4
    /\ metrics.tests[1].status = "failed"
    /\ metrics.tests[2].status = "broken"
    /\ metrics.tests[3].status = "passed"
    /\ metrics.tests[4].status = "failed"

ValidFiles == {i \in 1..Len(files) : Valid(files[i])}

\* C9: a file that fails to parse never aborts the scan: every valid file is
\* still processed, yields its record and adds one to total, so total is at
\* least the number of valid files.
C9_ScanNeverAborts ==
    AfterParse =>
        /\ metrics.total >= Cardinality(ValidFiles)
        /\ Len(metrics.tests) = Cardinality(ValidFiles)
        /\ \A i \in ValidFiles :
            \E k \in DOMAIN metrics.tests : metrics.tests[k].fullName = i

C9_Witness ==
    /\ AfterParse
    /\ Len(files) = 2
    /\ ~Valid(files[1])
    /\ Valid(files[2])
    /\ metrics.total >= 1
    /\ Len(metrics.tests) = 1

\* C10: a result file whose parsing fails changes none of total, passed,
\* failed, skipped, broken, total_duration or the tests list.
C10_FailedFileChangesNothing ==
    [][(prog = "metrics" /\ pc = "scan" /\ idx <= Len(files) /\ ~Valid(files[idx]))
        => metrics' = metrics]_vars

\* C11: a record whose status is missing or none of passed, failed, skipped,
\* broken is kept and carries the status 'unknown' in the resulting record.
C11_UnrecognizedStatusIsUnknown ==
    AfterParse =>
        \A i \in ValidFiles :
            files[i].status \notin KnownStatuses =>
                \E k \in DOMAIN metrics.tests :
                    /\ metrics.tests[k].fullName = i
                    /\ metrics.tests[k].status = "unknown"

\* max(stop - start, 0) of every file that yields a record, in scan order
ClampedDurations ==
    LET v == SelectSeq(files, Valid)
    IN  [i \in DOMAIN v |->
            Max(Get(v[i].stop, JNum(0)).v - Get(v[i].start, JNum(0)).v, 0)]

\* main of the full-report script holds the value of its own parse
ReportParsed == prog = "report" /\ ~results.isEmpty

\* C12: every record of either reader has duration = max(stop - start, 0); no
\* record has a negative duration, also when stop < start or stop is absent.
C12_DurationsClamped ==
    /\ AfterParse => Durations(metrics.tests) = ClampedDurations
    /\ ReportParsed =>
        /\ Durations(results.tests) = ClampedDurations
        /\ \A k \in DOMAIN results.tests : results.tests[k].duration >= 0

\* C13: the badge has schemaVersion 1, label 'tests', message
\* '<passed>/<total> passed', and color success exactly when pass_rate >= 95,
\* warning exactly when 80 <= pass_rate < 95, critical exactly when
\* pass_rate < 80 (18 of 20 gives warning, total 0 gives critical).
C13_BadgeColorByPassRate ==
    call.op = "create_gitlab_badge_data" =>
        LET b == call.badge
            p == metrics.passed
            t == metrics.total
        IN  /\ b.schemaVersion = 1
            /\ b.label = "tests"
            /\ ParseInt(b.message.passed) = p
            /\ ParseInt(b.message.total) = t
            /\ b.color \in {"success", "warning", "critical"}
            /\ b.color = "success" <=> (t > 0 /\ p * 100 >= 95 * t)
            /\ b.color = "warning" <=> (t > 0 /\ p * 100 >= 80 * t /\ p * 100 < 95 * t)
            /\ b.color = "critical" <=> (t = 0 \/ p * 100 < 80 * t)
            /\ (p = 18 /\ t = 20) => b.color = "warning"

C13_Witness ==
    /\ call.op = "create_gitlab_badge_data"
    /\ metrics.passed = 18
    /\ metrics.total = 20
    /\ call.badge.color = "warning"
    /\ call.badge.message = [passed |-> <<1, 8>>, total |-> <<2, 0>>]

\* the band a printed judgment names
BandOfLabel(label) ==
    CASE label \in {"EXCELLENT", "All tests passed", "Excellent"} -> "excellent"
      [] label \in {"GOOD", "Tests mostly passed", "Good"} -> "good"
      [] label \in {"WARNING", "Some tests failed", "Warning"} -> "warning"
      [] label \in {"CRITICAL", "Many tests failed"} -> "critical"
      [] OTHER -> "none"

\* the four bands of the claim for the pass rate passed / total * 100
ClaimedBand(p, t) ==
    IF t > 0 /\ p = t THEN "excellent"
    ELSE IF t > 0 /\ p * 100 >= 95 * t THEN "good"
    ELSE IF t > 0 /\ p * 100 >= 80 * t THEN "warning"
    ELSE "critical"

\* C14: print_metrics, generate_markdown_summary and the console summary of
\* generate_reports.main put the same pass rate into the same of four bands:
\* 100 excellent, >= 95 good, >= 80 warning, < 80 critical.
C14_SameBandEverywhere ==
    prog = "calc" =>
        /\ (console.printed /\ console.band # "") =>
            BandOfLabel(console.band) = ClaimedBand(metrics.passed, metrics.total)
        /\ fs.summary_md.exists =>
            BandOfLabel(fs.summary_md.status_text)
                = ClaimedBand(metrics.passed, metrics.total)

\* C16: the executive status line reads 'All tests passed' exactly when
\* failed = 0 and otherwise '<failed> test(s) require attention'; the
\* recommendation approves deployment exactly when pass_rate >= 95.
C16_ExecutiveStatusAndRecommendation ==
    (prog = "calc" /\ fs.executive_md.exists) =>
        LET e == fs.executive_md
            p == results.passed
            t == results.total
        IN  /\ e.kind = "executive"
            /\ e.status_line = "All tests passed!" <=> results.failed = 0
            /\ results.failed # 0 =>
                /\ e.status_line = "test(s) require attention"
                /\ ParseInt(e.attention) = results.failed
            /\ e.recommendation = "Production deployment approved."
                <=> (t > 0 /\ p * 100 >= 95 * t)
            /\ ~(t > 0 /\ p * 100 >= 95 * t)
                => e.recommendation = "Review failures before deployment."

C16_Witness ==
    /\ prog = "calc" /\ fs.executive_md.exists
    /\ results.total = 20 /\ results.passed = 19 /\ results.failed = 1
    /\ fs.executive_md.status_line = "test(s) require attention"
    /\ fs.executive_md.attention = <<1>>
    /\ fs.executive_md.recommendation = "Production deployment approved."

\* C18: reading back the 'Total Tests', 'Passed', 'Failed' and 'Skipped' rows
\* of the comprehensive report's table yields the counts that were rendered.
C18_TableRoundTrip ==
    (prog = "calc" /\ fs.report_md.exists /\ fs.report_md.kind = "comprehensive") =>
        /\ ParseInt(fs.report_md.table.total) = results.total
        /\ ParseInt(fs.report_md.table.passed) = results.passed
        /\ ParseInt(fs.report_md.table.failed) = results.failed
        /\ ParseInt(fs.report_md.table.skipped) = results.skipped

C18_Witness ==
    /\ prog = "calc" /\ fs.report_md.exists
    /\ results.total = 20 /\ results.passed = 12
    /\ results.failed = 7 /\ results.skipped = 1
    /\ fs.report_md.table.total = <<2, 0>>
    /\ fs.report_md.table.passed = <<1, 2>>

ReportTotal == report_parse_allure_results(dirExists, files).total

\* generate_all_formats has returned or ended the run, with something to report
AfterGenerateAll ==
    /\ prog = "report"
    /\ pc \in {"exec", "print", "exit", "done"}
    /\ Len(files) > 0
    /\ ReportTotal > 0

\* C15: generate_markdown_report renders comprehensive for 'comprehensive',
\* executive for 'executive', and basic for every other template identifier,
\* without raising.
C15_TemplateSelection ==
    /\ (prog = "report" /\ fs.report_md.exists) =>
        fs.report_md.kind =
            IF template = "comprehensive" THEN "comprehensive"
            ELSE IF template = "executive" THEN "executive"
            ELSE "basic"
    /\ (AfterGenerateAll /\ template \notin {"comprehensive", "executive"}) =>
        /\ fs.report_md.exists
        /\ fs.report_md.kind = "basic"
        /\ ~fs.report_md.raised

C15_Witness ==
    /\ prog = "report" /\ Done
    /\ template = "custom"
    /\ fs.report_md.exists
    /\ fs.report_md.kind = "basic"

FailedIdx == {k \in DOMAIN metrics.tests : metrics.tests[k].status = "failed"}
NthFailed(i) ==
    CHOOSE k \in FailedIdx : Cardinality({j \in FailedIdx : j < k}) = i - 1

\* C17: test-summary.md has no 'Failed Tests' section when no record is failed,
\* otherwise that section with one bullet per failed record in original order;
\* the slowest-tests section is there only when the tests list is non-empty.
C17_OptionalMarkdownSections ==
    (prog = "metrics" /\ fs.summary_md.exists) =>
        LET md == fs.summary_md IN
        /\ FailedIdx = {} => (~md.failed_section /\ md.failed_bullets = <<>>)
        /\ FailedIdx # {} =>
            /\ md.failed_section
            /\ Len(md.failed_bullets) = Cardinality(FailedIdx)
            /\ \A i \in DOMAIN md.failed_bullets :
                md.failed_bullets[i] = metrics.tests[NthFailed(i)].name
        /\ md.slowest_section <=> metrics.tests # <<>>
        /\ ~md.slowest_section => md.slowest_bullets = <<>>

C17_Witness ==
    /\ prog = "metrics" /\ fs.summary_md.exists
    /\ fs.summary_md.failed_section
    /\ fs.summary_md.failed_bullets = <<"u", "t">>
    /\ fs.summary_md.slowest_section

\* C20: with the converter missing or exiting non-zero no conversion raises:
\* no converted file appears, the run goes on to the executive summary and to
\* its end, and the exit code follows from the failed-test count alone.
C20_PandocFailureIsNotFatal ==
    (prog = "report" /\ pandoc # "ok") =>
        /\ fs.converted = {}
        /\ (Done /\ fs.report_md.exists) => fs.executive_md.exists
        /\ (Done /\ fs.executive_md.exists) =>
            exitCode = IF results.failed > 0 THEN 1 ELSE 0

C20_Witness ==
    /\ prog = "report" /\ Done
    /\ pandoc = "missing"
    /\ fs.report_md.exists /\ fs.executive_md.exists
    /\ fs.converted = {}
    /\ results.failed = 0 /\ results.total > 0
    /\ exitCode = 0

\* the artifact is on disk
Written(artifact) ==
    IF artifact = "metrics.txt" THEN fs.metrics_txt.exists
    ELSE IF artifact = "test-summary.json" THEN fs.summary_json.exists
    ELSE IF artifact = "test-summary.md" THEN fs.summary_md.exists
    ELSE IF artifact = "test_report.md" THEN fs.report_md.exists
    ELSE IF artifact = "obsidian.md" THEN fs.obsidian_md.exists
    ELSE fs.executive_md.exists

\* the artifacts a run with results persists
ArtifactsOfRun ==
    IF prog = "metrics"
    THEN {"metrics.txt", "test-summary.json", "test-summary.md"}
    ELSE {"test_report.md", "obsidian.md", "executive_summary.md"}

\* C19: each artifact is persisted independently: when the write of one
\* artifact fails, every other artifact of the same run is still written.
C19_ArtifactsIndependent ==
    (Done /\ fs.oserror # "" /\ (prog = "metrics" => metrics.total > 0)) =>
        \A a \in ArtifactsOfRun \ {fs.oserror} : Written(a)

MetricsRead == prog = "calc" /\ pc \in {"metrics_read", "both_read"}
ReportRead == prog = "calc" /\ pc \in {"report_read", "both_read"}
NoResultFiles == ~dirExists \/ files = <<>>

\* C21: with the results directory missing or without a result file, each
\* reader returns a structure with total = 0, all status counts 0 and an empty
\* tests list.
C21_EmptyInputGivesZeroStructure ==
    /\ (MetricsRead /\ NoResultFiles) => metrics = _get_empty_metrics
    /\ (ReportRead /\ NoResultFiles) => results = NewTestResults

\* C21 as the code has it: the calculator returns the all-zero structure in both
\* cases; the generator returns it for an empty directory and the empty dict,
\* which has no total, counts or tests list, for a missing directory.
C21_EmptyInputGivesZeroStructureOrEmptyDict ==
    /\ (MetricsRead /\ NoResultFiles) => metrics = _get_empty_metrics
    /\ (ReportRead /\ dirExists /\ files = <<>>) => results = NewTestResults
    /\ (ReportRead /\ ~dirExists) => results = EmptyDict

C21_Witness ==
    /\ prog = "calc" /\ pc = "both_read"
    /\ ~dirExists
    /\ metrics = _get_empty_metrics
    /\ results.isEmpty

CountWithStatus(tests, status) ==
    Cardinality({k \in DOMAIN tests : tests[k].status = status})

RECURSIVE SumDurations(_)
SumDurations(tests) ==
    IF tests = <<>> THEN 0
    ELSE tests[1].duration + SumDurations(Tail(tests))

\* C28: after parse_allure_results the counters agree with the record list:
\* total is the length of tests, each of passed, failed, skipped, broken is the
\* number of records with that status (failed that of get_failed_tests), and
\* total_duration is the sum of the records' durations.
C28_CountersAgreeWithRecords ==
    MetricsRead =>
        /\ metrics.total = Len(metrics.tests)
        /\ metrics.failed = Len(get_failed_tests(metrics))
        /\ metrics.passed = CountWithStatus(metrics.tests, "passed")
        /\ metrics.skipped = CountWithStatus(metrics.tests, "skipped")
        /\ metrics.broken = CountWithStatus(metrics.tests, "broken")
        /\ metrics.total_duration = SumDurations(metrics.tests)

\* C29: on the same directory contents both readers give the same total,
\* passed, failed and skipped counts, for every mix of valid, partially invalid
\* and malformed result files.
C29_ReadersAgreeOnCounts ==
    (prog = "calc" /\ pc = "both_read" /\ dirExists) =>
        /\ ~results.isEmpty
        /\ results.total = metrics.total
        /\ results.passed = metrics.passed
        /\ results.failed = metrics.failed
        /\ results.skipped = metrics.skipped

C29_Witness ==
    /\ prog = "calc" /\ pc = "both_read" /\ dirExists
    /\ Len(files) = 2
    /\ files[1].json = "array"
    /\ files[2].status = "failed" /\ ~Valid(files[2])
    /\ results.total = 2 /\ metrics.total = 2
    /\ results.failed = 1 /\ metrics.failed = 1
    /\ results.tests = <<>>

\* floor(pass_rate / 5) for pass_rate = 100 * passed / total, 0 at total = 0
FilledSlots(passed, total) ==
    IF total = 0 THEN 0
    ELSE CHOOSE k \in 0..20 :
            /\ 5 * k * total <= 100 * passed
            /\ 100 * passed < 5 * (k + 1) * total

BarAsClaimed(bar, passed, total) ==
    /\ bar.filled + bar.empty = 20
    /\ bar.filled = FilledSlots(passed, total)
    /\ bar.empty = 20 - FilledSlots(passed, total)

\* C26: each rendered pass-rate bar (comprehensive report, console metrics,
\* Markdown summary) has exactly 20 glyphs, floor(pass_rate/5) of them filled
\* and the other 20 - floor(pass_rate/5) empty.
C26_BarHasTwentyGlyphs ==
    prog = "calc" =>
        /\ console.printed /\ console.band \in {"EXCELLENT", "GOOD", "WARNING", "CRITICAL"} =>
            BarAsClaimed(console.bar, metrics.passed, metrics.total)
        /\ fs.summary_md.exists =>
            BarAsClaimed(fs.summary_md.bar, metrics.passed, metrics.total)
        /\ (fs.report_md.exists /\ fs.report_md.kind = "comprehensive") =>
            BarAsClaimed(fs.report_md.bar, results.passed, results.total)

C26_Witness ==
    /\ prog = "calc"
    /\ metrics.total = 19 /\ metrics.passed = 18
    /\ console.printed /\ console.bar = [filled |-> 18, empty |-> 2]
    /\ fs.summary_md.exists /\ fs.summary_md.bar = [filled |-> 18, empty |-> 2]
    /\ fs.report_md.exists /\ fs.report_md.bar = [filled |-> 18, empty |-> 2]

\* C27: once produced by parse_allure_results the metrics are read-only: none
\* of the nine methods that take them changes a count, total_duration or the
\* content or order of the tests list, in any sequence of calls.
C27_MetricsReadOnly ==
    [][prog = "calc" => metrics' = metrics]_vars

\* every method was called, the slowest list came out in another order than the
\* tests list, and the metrics are still the value the parse returned
C27_Witness ==
    /\ prog = "calc"
    /\ call.op = "get_slowest_tests" /\ call.count = 2
    /\ Len(metrics.tests) = 2
    /\ call.list = <<metrics.tests[2], metrics.tests[1]>>
    /\ call.list # metrics.tests
    /\ console.printed
    /\ fs.metrics_txt.exists /\ fs.summary_json.exists /\ fs.summary_md.exists
    /\ metrics = parse_allure_results(dirExists, files)

\* C25: after any sequence of get_logger calls each requested logger has
\* exactly the three handlers of its first call (file, console, error file); a
\* repeat call for a name returns the same logger and adds no handler.
C25_GetOrCreate ==
    /\ [](prog = "logger" =>
            \A n \in LoggerNames :
                loggers[n].exists => loggers[n].handlers = ThreeHandlers)
    /\ [][prog = "logger" =>
            /\ call'.result = call'.selector
            /\ loggers'[call'.selector].exists
            /\ \A n \in LoggerNames :
                loggers[n].exists => loggers'[n] = loggers[n]]_vars

\* a second call for a name, with another level than the first
C25_Witness ==
    /\ prog = "logger"
    /\ call.op = "get_logger" /\ call.selector = "api" /\ call.outcome = "DEBUG"
    /\ loggers["api"].exists /\ loggers["api"].level = "ERROR"
    /\ loggers["api"].handlers = ThreeHandlers
    /\ loggers["screenshot"].exists

PresenceQueries ==
    {"BasePage.is_visible", "LoginPage.is_username_visible",
     "LoginPage.is_password_visible", "LoginPage.is_login_button_visible",
     "LoginPage.is_forgot_password_visible"}

\* C22: every element-presence query of the page objects returns a boolean,
\* returns False when the browser call times out or fails, and never
\* propagates the failure to its caller.
C22_PresenceQueriesNeverRaise ==
    (prog = "pages" /\ call.op \in PresenceQueries) =>
        /\ call.raised = ""
        /\ call.result \in {"True", "False"}
        /\ call.outcome \in {"TimeoutError", "Error"} => call.result = "False"

\* C23: is_logged_in returns True whenever the URL contains the dashboard
\* fragment or the user menu is visible, also when the check of the other
\* signal fails, and False only when neither holds.
C23_EitherSignalSuffices ==
    (prog = "pages" /\ call.op = "LoginPage.is_logged_in") =>
        LET urlSignal == UrlContains(url, dashboard_url)
            menuSignal == call.outcome = "visible"
        IN  /\ (urlSignal \/ menuSignal) => (call.raised = "" /\ call.result = "True")
            /\ call.result = "False" => (~urlSignal /\ ~menuSignal)

WrappedOps == {"LoginPage.login", "LoginPage.quick_login", "step"}

Description(op) ==
    IF op = "LoginPage.login" THEN "Login with credentials"
    ELSE IF op = "LoginPage.quick_login" THEN "Quick login (direct navigation + login)"
    ELSE "step"

\* the positions of the success and failure records of the step in logged
Verdicts(logged, step) ==
    {i \in DOMAIN logged :
        logged[i].step = step /\ logged[i].kind \in {"PASSED", "FAILED"}}

\* what the wrapped function returns in the model when it returns
ResultOf(op, outcome) == IF op = "step" THEN outcome ELSE "None"

\* the invocation logged the entry first and one verdict last, success with the
\* result of the wrapped function on return, failure with the same exception
\* raised again otherwise
LoggedThenReraised ==
    LET l == call.logged
        d == Description(call.op)
    IN  /\ l # <<>>
        /\ l[1] = Record("info", "STEP", d)
        /\ Verdicts(l, d) = {Len(l)}
        /\ call.outcome \notin Raises =>
            /\ l[Len(l)] = Record("info", "PASSED", d)
            /\ call.raised = ""
            /\ call.result = ResultOf(call.op, call.outcome)
        /\ call.outcome \in Raises =>
            /\ l[Len(l)] = Record("error", "FAILED", d)
            /\ call.raised = call.outcome
        /\ SubSeq(log, Len(log) - Len(l) + 1, Len(log)) = l

\* C24: every invocation of a function wrapped by log_test_step logs the entry
\* first and then exactly one of success or failure; it returns the result
\* unchanged, or logs the failure and re-raises the same exception.
C24_LogThenReraise ==
    (prog = "pages" /\ call.op \in WrappedOps) => LoggedThenReraised

\* C24 as the code has it: it holds of every return and of every exception that
\* is an instance of Exception (a browser failure of login among them); any
\* other exception (KeyboardInterrupt) leaves the wrapper after the entry was
\* logged, with neither success nor failure logged, and is not swallowed either.
C24_LogThenReraiseException ==
    (prog = "pages" /\ call.op \in WrappedOps) =>
        IF call.outcome \in Raises /\ ~IsException(call.outcome)
        THEN /\ call.logged # <<>>
             /\ call.logged[1] = Record("info", "STEP", Description(call.op))
             /\ Verdicts(call.logged, Description(call.op)) = {}
             /\ call.raised = call.outcome
        ELSE LoggedThenReraised

C24_Witness ==
    /\ prog = "pages"
    /\ call.op = "LoginPage.login" /\ call.outcome = "TimeoutError"
    /\ call.raised = "TimeoutError"
    /\ call.logged = <<Record("info", "STEP", "Login with credentials"),
                       Record("info", "Attempting login", ""),
                       Record("error", "Login failed", ""),
                       Record("error", "FAILED", "Login with credentials")>>

====
